---- MODULE Spec2Model ----
(***************************************************************************)
(* Logo localisation and redaction of File-Cleanser-and-Analysis.          *)
(*                                                                         *)
(* The module models the repository's template-matching routines           *)
(*   logo_streamlit.detect_logos           (multi-scale, threshold 0.6)    *)
(*   data_cleanser.redact_logo_from_image  (single scale, colour)          *)
(*   utils/file_cleanser_analysis_app.redact_logo                          *)
(*   utils/logo_detector.detect_logo       (boolean, colour)               *)
(*   utils/text_extractor.detect_logos     (boolean, grey)                 *)
(* on small concrete images.  The OpenCV primitives the routines call      *)
(* (cvtColor, matchTemplate with TM_CCOEFF_NORMED, rectangle, resize) are  *)
(* operators computed in exact integer arithmetic.                         *)
(***************************************************************************)
EXTENDS Integers, Sequences, FiniteSets, TLC

\* Largest image width and height (documents and logos alike).
MaxW == 3
MaxH == 2

\* Colours of the small palette: black, a blue and a red.  Channel values are
\* kept small so that every sum of the correlation fits a 32-bit integer.
\* Blue has the luminance of black (0); red has luminance 1.
Black == <<0, 0, 0>>
Blue == <<0, 0, 4>>
Red == <<4, 0, 0>>
Green255 == <<0, 255, 0>>

\* imread's None / an image that cannot be decoded.
NoImage == [w |-> 0, h |-> 0, px |-> << >>]

\* Pixel (x, y), 0-based, of a row-major image.
At(img, x, y) == img.px[y * img.w + x + 1]

XOf(i, w) == (i - 1) % w
YOf(i, w) == (i - 1) \div w

\* A sequence given by a function constructor, as an explicit tuple (TLC then
\* holds its elements instead of re-evaluating the constructor on every use).
Tuple(f) == f \o << >>

RECURSIVE SumTo(_, _)
SumTo(s, n) == IF n = 0 THEN 0 ELSE s[n] + SumTo(s, n - 1)

Sum(s) == SumTo(s, Len(s))

\* The input images: a pattern name fixes the pixel at every position.
ColourPatterns == {"flatK", "flatR", "dot", "dotB", "checkerB", "end"}

PatternPixel(p, x, y, w, h) ==
    CASE p = "flatK" -> Black
      [] p = "flatR" -> Red
      [] p = "dot" -> IF x = 0 /\ y = 0 THEN Red ELSE Black
      [] p = "dotB" -> IF x = 0 /\ y = 0 THEN Red ELSE Blue
      [] p = "checkerB" -> IF (x + y) % 2 = 1 THEN Red ELSE Blue
      [] p = "end" -> IF x = w - 1 /\ y = h - 1 THEN Red ELSE Black

MakeImage(p, w, h) ==
    [w |-> w, h |-> h,
     px |-> Tuple([i \in 1..(w * h) |-> PatternPixel(p, XOf(i, w), YOf(i, w), w, h)])]

Images == {MakeImage(p, w, h) : p \in ColourPatterns, w \in 1..MaxW, h \in 1..MaxH}

\* The logos tried: a constant one and two that are not.
LogoPatterns == {"flatK", "dotB", "end"}
Logos == {MakeImage(p, w, h) : p \in LogoPatterns, w \in 1..MaxW, h \in 1..MaxH}

\* cv2.cvtColor(.., COLOR_RGB2GRAY / COLOR_BGR2GRAY) on 8-bit data:
\* (4899 R + 9617 G + 1868 B + 8192) >> 14, one channel per pixel.
Luma(p) == (4899 * p[1] + 9617 * p[2] + 1868 * p[3] + 8192) \div 16384

cvtColorGray(img) ==
    [w |-> img.w, h |-> img.h,
     px |-> Tuple([i \in 1..Len(img.px) |-> <<Luma(img.px[i])>>])]

Channels(img) == Len(img.px[1])

IsConstant(img) == \A i \in 1..Len(img.px) : img.px[i] = img.px[1]

(***************************************************************************)
(* cv2.matchTemplate(img, templ, TM_CCOEFF_NORMED).                        *)
(* For the window of img at (x, y) and a template of area a, over all      *)
(* channels:   n = a*Sum(I*T) - Sum_c S_I,c * S_T,c                        *)
(*             A = a*Sum(I*I) - Sum_c S_I,c^2   (window variance, times a) *)
(*             B = a*Sum(T*T) - Sum_c S_T,c^2   (template variance)        *)
(* and the score is n / sqrt(A*B).  A constant template (B = 0) makes the  *)
(* whole map 1; a constant window (A = 0) scores 0.                        *)
(***************************************************************************)
WinVal(img, x, y, tw, i, c) == At(img, x + XOf(i, tw), y + YOf(i, tw))[c]

Score(img, templ, x, y) ==
    LET a == templ.w * templ.h
        cn == Channels(templ)
        I(i, c) == WinVal(img, x, y, templ.w, i, c)
        T(i, c) == templ.px[i][c]
        SI(c) == Sum([i \in 1..a |-> I(i, c)])
        ST(c) == Sum([i \in 1..a |-> T(i, c)])
        sIT == Sum([c \in 1..cn |-> Sum([i \in 1..a |-> I(i, c) * T(i, c)])])
        sII == Sum([c \in 1..cn |-> Sum([i \in 1..a |-> I(i, c) * I(i, c)])])
        sTT == Sum([c \in 1..cn |-> Sum([i \in 1..a |-> T(i, c) * T(i, c)])])
        n == a * sIT - Sum([c \in 1..cn |-> SI(c) * ST(c)])
        A == a * sII - Sum([c \in 1..cn |-> SI(c) * SI(c)])
        B == a * sTT - Sum([c \in 1..cn |-> ST(c) * ST(c)])
    IN  [one |-> B = 0, n |-> n, d |-> A * B]

\* Variant: the comparison turned round: score <= t/10.
ScoreAtMost(sc, t) ==
    IF sc.one THEN 10 <= t
    ELSE IF sc.d = 0 THEN 0 <= t
    ELSE IF sc.n < 0 THEN TRUE
    ELSE sc.n * sc.n * 100 <= t * t * sc.d

\* score >= t/10, for t >= 0, without taking the square root.
ScoreAtLeast(sc, t) ==
    IF sc.one THEN 10 >= t
    ELSE IF sc.d = 0 THEN 0 >= t
    ELSE IF sc.n < 0 THEN FALSE
    ELSE sc.n * sc.n * 100 >= t * t * sc.d

\* The score map of templ slid over img: (img.h - templ.h + 1) rows of
\* (img.w - templ.w + 1) columns, row-major.
CorrMap(img, templ) ==
    LET rw == img.w - templ.w + 1
        rh == img.h - templ.h + 1
    IN  [err |-> FALSE, w |-> rw, h |-> rh,
         sc |-> Tuple([i \in 1..(rw * rh) |->
                         Score(img, templ, XOf(i, rw), YOf(i, rw))])]

\* matchTemplate exchanges image and template when the image is the smaller
\* one in both directions, and fails its size assertion (cv2.error) when the
\* template exceeds the image in one direction only.
matchTemplate(img, templ) ==
    IF img.w >= templ.w /\ img.h >= templ.h THEN CorrMap(img, templ)
    ELSE IF img.w <= templ.w /\ img.h <= templ.h THEN CorrMap(templ, img)
    ELSE [err |-> TRUE, w |-> 0, h |-> 0, sc |-> << >>]

\* np.where(res >= threshold): the (row, col) indices of the cells at or
\* above the threshold, in row-major order.
RECURSIVE WhereFrom(_, _, _)
WhereFrom(res, t, i) ==
    IF i > Len(res.sc) THEN << >>
    ELSE (IF ScoreAtLeast(res.sc[i], t)
          THEN << <<YOf(i, res.w), XOf(i, res.w)>> >> ELSE << >>)
         \o WhereFrom(res, t, i + 1)

\* Variant: only the first cell at or above the threshold, as a best-match
\* search would return.
npWhereFirst(res, t) == SubSeq(WhereFrom(res, t, 1), 1, 1)

\* Variant: the cells in column-major order.
RECURSIVE WhereByColumn(_, _, _)
WhereByColumn(res, t, i) ==
    IF i > Len(res.sc) THEN << >>
    ELSE LET col == (i - 1) \div res.h
             row == (i - 1) % res.h
         IN  (IF ScoreAtLeast(res.sc[row * res.w + col + 1], t)
              THEN << <<row, col>> >> ELSE << >>)
             \o WhereByColumn(res, t, i + 1)

npWhereColumnMajor(res, t) == WhereByColumn(res, t, 1)

npWhere(res, t) == WhereFrom(res, t, 1)

\* zip(*loc[::-1]): the points (x, y) = (col, row), in the order of loc.
zipReversed(loc) == Tuple([i \in 1..Len(loc) |-> <<loc[i][2], loc[i][1]>>])

\* cv2.rectangle(img, pt1, pt2, color, -1): fills every pixel of the image
\* with x1 <= x <= x2 and y1 <= y <= y2, both corners included.
rectangleFilled(img, x1, y1, x2, y2, color) ==
    [img EXCEPT !.px = Tuple([i \in 1..Len(img.px) |->
        IF /\ x1 <= XOf(i, img.w) /\ XOf(i, img.w) <= x2
           /\ y1 <= YOf(i, img.w) /\ YOf(i, img.w) <= y2
        THEN color ELSE img.px[i]])]

\* cv2.rectangle(img, pt1, pt2, color, 2): the outline of the rectangle with a
\* stroke two pixels thick; the stroke covers the border and its neighbours.
rectangleOutline(img, x1, y1, x2, y2, color) ==
    [img EXCEPT !.px = Tuple([i \in 1..Len(img.px) |->
        LET x == XOf(i, img.w)
            y == YOf(i, img.w)
        IN  IF /\ x1 - 1 <= x /\ x <= x2 + 1 /\ y1 - 1 <= y /\ y <= y2 + 1
               /\ ~(x1 + 2 <= x /\ x <= x2 - 2 /\ y1 + 2 <= y /\ y <= y2 - 2)
            THEN color ELSE img.px[i]])]

\* cv2.imread(path): the decoded file, or None (NoImage) when it cannot be read.
imread(file) == file

\* Variant: a view on the image's own buffer, as np.asarray may give.
npArrayView(image) == [img |-> image, shares |-> TRUE]

\* np.array(pil_image) allocates a new buffer: writes to the array do not
\* reach the image it was made from.
npArray(image) == [img |-> image, shares |-> FALSE]

\* ndarray.copy(): a new buffer again.
arrayCopy(arr) == [img |-> arr, shares |-> FALSE]

Box(x, y, w, h) == [x |-> x, y |-> y, w |-> w, h |-> h]

NoResult == [op |-> "none", kind |-> "none", value |-> FALSE, image |-> NoImage,
             boxes |-> << >>, count |-> 0, threshold |-> 0, input |-> NoImage]

(***************************************************************************)
(* data_cleanser.redact_logo_from_image(main_image_path, logo_image_path,  *)
(* threshold).  The code names the logo's rows w and its columns h and     *)
(* draws to (pt[0] + h, pt[1] + w): the box is cols wide and rows high.    *)
(***************************************************************************)
RECURSIVE RedactLoop(_, _, _, _, _, _)
RedactLoop(main_img, pts, i, w, h, count) ==
    IF i > Len(pts) THEN [img |-> main_img, count |-> count]
    ELSE RedactLoop(rectangleFilled(main_img, pts[i][1], pts[i][2],
                                    pts[i][1] + h, pts[i][2] + w, Black),
                    pts, i + 1, w, h, count + 1)

\* The loop "for pt in zip(*loc[::-1])" of both redaction routines, and what
\* they return: the painted image, with the boxes and their count.  When the
\* array shares the caller's buffer, the caller's image is painted too.
Redacted(base, main_img, shares, pts, w, h) ==
    CHOOSE r \in
        {[base EXCEPT !.kind = "image", !.image = done.img, !.count = done.count,
                      !.boxes = Tuple([i \in 1..Len(p) |-> Box(p[i][1], p[i][2], h, w)]),
                      !.input = IF shares THEN done.img ELSE base.input] :
            <<p, done>> \in {<<q, RedactLoop(main_img, q, 1, w, h, 0)>> : q \in {pts}}} : TRUE

redact_logo_from_image(main_image_path, logo_image_path, threshold) ==
    LET main_img == imread(main_image_path)
        logo_img == imread(logo_image_path)
        base == [NoResult EXCEPT !.op = "redact_logo_from_image",
                                 !.threshold = threshold, !.input = main_image_path]
    IN  IF main_img = NoImage \/ logo_img = NoImage
        THEN [base EXCEPT !.kind = "None"]
        ELSE LET w == logo_img.h
                 h == logo_img.w
                 res == matchTemplate(main_img, logo_img)
             IN  IF res.err THEN [base EXCEPT !.kind = "raise"]
                 ELSE LET pts == zipReversed(npWhere(res, threshold))
                      IN  Redacted(base, main_img, FALSE, pts, w, h)

(***************************************************************************)
(* utils/file_cleanser_analysis_app.redact_logo(main_image, logo_image):   *)
(* both arguments are decoded PIL images; the threshold is fixed at 0.8.   *)
(***************************************************************************)
redact_logo(main_image, logo_image) ==
    LET arr == npArray(main_image)
        main_img_cv == arr.img
        logo_img_cv == npArray(logo_image).img
        w == logo_img_cv.h
        h == logo_img_cv.w
        res == matchTemplate(main_img_cv, logo_img_cv)
        base == [NoResult EXCEPT !.op = "redact_logo", !.threshold = 8,
                                 !.input = main_image]
    IN  IF res.err THEN [base EXCEPT !.kind = "raise"]
        ELSE LET pts == zipReversed(npWhere(res, 8))
             IN  Redacted(base, main_img_cv, arr.shares, pts, w, h)

(***************************************************************************)
(* utils/logo_detector.detect_logo (and its copy in utils/data_cleanser):  *)
(* colour matching at 0.8; a file that cannot be read and any exception    *)
(* both give False.                                                        *)
(***************************************************************************)
anyAtLeast(res, t) == \E i \in 1..Len(res.sc) : ScoreAtLeast(res.sc[i], t)

detect_logo(document_image_path, logo_image_path) ==
    LET doc_img == imread(document_image_path)
        logo_img == imread(logo_image_path)
        base == [NoResult EXCEPT !.op = "detect_logo", !.threshold = 8,
                                 !.kind = "bool", !.input = document_image_path]
    IN  IF doc_img = NoImage \/ logo_img = NoImage THEN [base EXCEPT !.value = FALSE]
        ELSE LET res == matchTemplate(doc_img, logo_img)
             IN  IF res.err THEN [base EXCEPT !.value = FALSE]
                 ELSE [base EXCEPT !.value = anyAtLeast(res, 8)]

(***************************************************************************)
(* utils/text_extractor.detect_logos(image, logo_folder, threshold) for a  *)
(* folder holding one logo file: the dict has the entry logo_file -> bool, *)
(* or no entry (kind "empty") when the folder is missing or the logo       *)
(* cannot be read.  Matching is on the grey images.                        *)
(***************************************************************************)
text_extractor_detect_logos(image, folderExists, logo_file, threshold) ==
    LET base == [NoResult EXCEPT !.op = "detect_logos", !.threshold = threshold,
                                 !.input = image]
    IN  IF ~folderExists THEN [base EXCEPT !.kind = "empty"]
        ELSE LET img_gray == cvtColorGray(npArray(image).img)
                 logo == imread(logo_file)
             IN  IF logo = NoImage THEN [base EXCEPT !.kind = "empty"]
                 ELSE LET res == matchTemplate(img_gray, cvtColorGray(logo))
                      IN  IF res.err THEN [base EXCEPT !.kind = "raise"]
                          ELSE [base EXCEPT !.kind = "dict",
                                   !.value = Len(npWhere(res, threshold)) > 0]

(***************************************************************************)
(* logo_streamlit.detect_logos(test_image_file, logo_files).               *)
(***************************************************************************)
\* scales = [0.5, 0.75, 1.0, 1.25, 1.5], in quarters.
scales == <<2, 3, 4, 5, 6>>

\* int(n * scale)
ScaledSize(n, scale) == (n * scale) \div 4

\* The detection threshold of logo_streamlit, in tenths.
StreamlitThreshold == 6

\* Grey images a resize may produce from a logo that is not constant.
ResizePatterns == {"gdot", "gend", "gchecker"}

GreyPatternPixel(p, x, y, w, h) ==
    CASE p = "gdot" -> IF x = 0 /\ y = 0 THEN <<1>> ELSE <<0>>
      [] p = "gend" -> IF x = w - 1 /\ y = h - 1 THEN <<1>> ELSE <<0>>
      [] p = "gchecker" -> <<(x + y) % 2>>

\* cv2.resize(logo_gray, (w, h)), for w, h >= 1.  At the logo's own size the
\* result is the logo; a constant logo stays constant; otherwise the
\* interpolated values depend on the build, and the result is one of the
\* grey images of the requested size, picked by pat.
resize(logo_gray, w, h, pat) ==
    IF w = logo_gray.w /\ h = logo_gray.h THEN logo_gray
    ELSE [w |-> w, h |-> h,
          px |-> Tuple([i \in 1..(w * h) |->
                    IF IsConstant(logo_gray) THEN logo_gray.px[1]
                    ELSE GreyPatternPixel(pat, XOf(i, w), YOf(i, w), w, h)])]

RECURSIVE OutlineLoop(_, _, _, _, _)
OutlineLoop(output_img, pts, i, w, h) ==
    IF i > Len(pts) THEN output_img
    ELSE OutlineLoop(rectangleOutline(output_img, pts[i][1], pts[i][2],
                                      pts[i][1] + w, pts[i][2] + h, Green255),
                     pts, i + 1, w, h)

Sessions == {"s1", "s2"}

NoFrame == [img |-> NoImage, img_gray |-> NoImage, output_img |-> NoImage,
            imgShared |-> FALSE, outShared |-> FALSE, logo_gray |-> NoImage,
            logoIdx |-> 0, scaleIdx |-> 0, detected |-> FALSE, pat |-> "gdot"]

VARIABLES
    test_image,   \* per session: the caller's document image (NoImage: undecodable)
    logo_files,   \* per session: the caller's logo images, a sequence
    pc,           \* per session: where the invocation stands
    ret,          \* per session: what a single-scale routine returned
    frame,        \* per session: the locals of logo_streamlit.detect_logos
    drawn,        \* per session: the boxes drawn so far, in the order drawn
    reported,     \* per session: st.success / st.warning per logo, <<logo, detected>>
    returned,     \* per session: the image detect_logos returned
    output_file   \* output_files/detected_image.png, shared by all sessions

\* The text side of the repository: extraction, client identification,
\* anonymisation, analysis, and the batch loop that chains them.
VARIABLES
    text_in,      \* the arguments of a text routine called on its own
    text_ret      \* what that routine returned

\* The batch loop of main.py and utils/fronted.py.
VARIABLES
    app,             \* the script that runs: "main" or "fronted"
    environ,         \* os.environ: whether GROQ_API_KEY is set
    uploaded_files,  \* what st.file_uploader returned, in upload order
    file_index,      \* the position of `file` in uploaded_files
    at,              \* the pipeline step the loop is about to take
    locals,          \* raw_text, client_name, anonymized_text, pii_count,
                     \* analysis_result of the loop body
    calls,           \* the pipeline functions invoked so far: [file, op]
    shown,           \* what the page shows per file so far: [file, what]
    prompted,        \* the prompts submitted to the model so far: [file, op]
    analysed         \* what interpret_content returned so far: [file, result]

batchVars == <<app, environ, uploaded_files, file_index, at, locals, calls, shown,
               prompted, analysed>>

textVars == <<text_in, text_ret, batchVars>>

NoTextCall == [op |-> "none"]

\* A local of the loop body not assigned yet.
Unbound == [bound |-> FALSE]

\* The locals before the first iteration.
LocalsUnbound ==
    [raw_text |-> Unbound, client_name |-> Unbound, anonymized_text |-> Unbound,
     pii_count |-> Unbound, analysis_result |-> Unbound]

\* The button of the batch page is not pressed.
BatchIdle ==
    /\ app = "none"
    /\ environ = [GROQ_API_KEY |-> FALSE]
    /\ uploaded_files = << >>
    /\ file_index = 0
    /\ at = "off"
    /\ locals = LocalsUnbound
    /\ calls = << >>
    /\ shown = << >>
    /\ prompted = << >>
    /\ analysed = << >>

\* No text routine is running.
TextIdle ==
    /\ text_in = NoTextCall
    /\ text_ret = NoTextCall
    /\ BatchIdle

vars == <<test_image, logo_files, pc, ret, frame, drawn, reported, returned, output_file,
          textVars>>

Files == Images \cup {NoImage}
LogoFilesOne == Logos \cup {NoImage}

TheLogo(s) == logo_files[s][1]

\* ---- the single-scale routines, one call each -------------------------
Thresholds == {6, 8}

Finish(s, r) ==
    /\ ret' = [ret EXCEPT ![s] = r]
    /\ test_image' = [test_image EXCEPT ![s] = r.input]
    /\ pc' = [pc EXCEPT ![s] = IF r.kind = "raise" THEN "raised" ELSE "done"]
    /\ UNCHANGED <<textVars, logo_files, frame, drawn, reported, returned, output_file>>

call_redact_logo_from_image(s) ==
    /\ pc[s] = "ready"
    /\ \E t \in Thresholds :
          Finish(s, redact_logo_from_image(test_image[s], TheLogo(s), t))

\* The caller opens both images with PIL before the call.
call_redact_logo(s) ==
    /\ pc[s] = "ready"
    /\ test_image[s] # NoImage /\ TheLogo(s) # NoImage
    /\ Finish(s, redact_logo(test_image[s], TheLogo(s)))

call_detect_logo(s) ==
    /\ pc[s] = "ready"
    /\ Finish(s, detect_logo(test_image[s], TheLogo(s)))

\* extract_text opens the image with PIL before the call.
call_text_extractor_detect_logos(s) ==
    /\ pc[s] = "ready"
    /\ test_image[s] # NoImage
    /\ \E t \in Thresholds, folderExists \in BOOLEAN :
          Finish(s, text_extractor_detect_logos(test_image[s], folderExists, TheLogo(s), t))

\* ---- logo_streamlit.detect_logos, step by step --------------------------
Raise(s) ==
    /\ pc' = [pc EXCEPT ![s] = "raised"]
    /\ UNCHANGED <<textVars, test_image, logo_files, ret, frame, drawn, reported, returned, output_file>>

\* Lines 29-32: open the test image, grey it, copy it for drawing.  pats are
\* the outcomes cv2.resize may have in this invocation.
detect_logos_open_with(s, pats) ==
    /\ pc[s] = "ready"
    /\ IF test_image[s] = NoImage THEN Raise(s)
       ELSE \E pat \in pats :
              LET arr == npArray(test_image[s])
                  cp == arrayCopy(arr.img)
              IN  /\ frame' = [frame EXCEPT ![s] =
                        [NoFrame EXCEPT !.img = arr.img, !.imgShared = arr.shares,
                                        !.img_gray = cvtColorGray(arr.img),
                                        !.output_img = cp.img, !.outShared = cp.shares,
                                        !.logoIdx = 1, !.pat = pat]]
                  /\ pc' = [pc EXCEPT ![s] = "logo"]
                  /\ UNCHANGED <<textVars, test_image, logo_files, ret, drawn, reported,
                                 returned, output_file>>

\* Variant: a resize whose interpolation is not reproducible from one
\* invocation to the next.
detect_logos_open_any_resize(s) == detect_logos_open_with(s, ResizePatterns)

\* What cv2.resize produces is fixed by the build: every invocation sees the
\* outcome the invocations before it saw.
BuildResizePatterns ==
    {p \in ResizePatterns : \A o \in Sessions : frame[o].logoIdx > 0 => frame[o].pat = p}

detect_logos_open(s) == detect_logos_open_with(s, BuildResizePatterns)

\* Lines 34-41: the next logo file, or the end of the loop.
detect_logos_next_logo(s) ==
    /\ pc[s] = "logo"
    /\ LET f == frame[s]
       IN  IF f.logoIdx > Len(logo_files[s])
           THEN /\ pc' = [pc EXCEPT ![s] = "save"]
                /\ UNCHANGED <<textVars, test_image, logo_files, ret, frame, drawn, reported,
                               returned, output_file>>
           ELSE IF logo_files[s][f.logoIdx] = NoImage THEN Raise(s)
           ELSE /\ frame' = [frame EXCEPT ![s] =
                      [f EXCEPT !.logo_gray = cvtColorGray(npArray(logo_files[s][f.logoIdx]).img),
                                !.scaleIdx = 1, !.detected = FALSE]]
                /\ pc' = [pc EXCEPT ![s] = "scale"]
                /\ UNCHANGED <<textVars, test_image, logo_files, ret, drawn, reported,
                               returned, output_file>>

ScaledW(f) == ScaledSize(f.logo_gray.w, scales[f.scaleIdx])
ScaledH(f) == ScaledSize(f.logo_gray.h, scales[f.scaleIdx])

\* Lines 42-48: a scaled logo larger than the test image is skipped.
detect_logos_skip_scale(s) ==
    /\ pc[s] = "scale"
    /\ frame[s].scaleIdx <= Len(scales)
    /\ ScaledW(frame[s]) > frame[s].img_gray.w \/ ScaledH(frame[s]) > frame[s].img_gray.h
    /\ frame' = [frame EXCEPT ![s].scaleIdx = @ + 1]
    /\ UNCHANGED <<textVars, test_image, logo_files, pc, ret, drawn, reported, returned, output_file>>

\* Line 50: cv2.resize refuses an empty size.
detect_logos_resize_error(s) ==
    /\ pc[s] = "scale"
    /\ frame[s].scaleIdx <= Len(scales)
    /\ ~(ScaledW(frame[s]) > frame[s].img_gray.w \/ ScaledH(frame[s]) > frame[s].img_gray.h)
    /\ ScaledW(frame[s]) = 0 \/ ScaledH(frame[s]) = 0
    /\ Raise(s)

\* Lines 50-56: match at this scale and outline every cell at or above 0.6.
detect_logos_match_scale(s) ==
    /\ pc[s] = "scale"
    /\ frame[s].scaleIdx <= Len(scales)
    /\ LET f == frame[s]
           w == ScaledW(f)
           h == ScaledH(f)
       IN  /\ ~(w > f.img_gray.w \/ h > f.img_gray.h)
           /\ w > 0 /\ h > 0
           /\ \E loc \in {npWhere(matchTemplate(f.img_gray, resize(f.logo_gray, w, h, f.pat)),
                                   StreamlitThreshold)} :
              \E pts \in {zipReversed(loc)} :
              \E out \in {OutlineLoop(f.output_img, pts, 1, w, h)} :
                  /\ frame' = [frame EXCEPT ![s] =
                        [f EXCEPT !.detected = (Len(loc) > 0) \/ f.detected,
                                  !.output_img = out,
                                  !.img = IF f.outShared THEN out ELSE f.img,
                                  !.scaleIdx = f.scaleIdx + 1]]
                  /\ test_image' = [test_image EXCEPT ![s] =
                        IF f.outShared /\ f.imgShared THEN out ELSE @]
                  /\ drawn' = [drawn EXCEPT ![s] = @ \o
                        [i \in 1..Len(pts) |->
                           [logo |-> f.logoIdx, scale |-> f.scaleIdx,
                            box |-> Box(pts[i][1], pts[i][2], w, h)]]]
                  /\ UNCHANGED <<textVars, logo_files, pc, ret, reported, returned, output_file>>

\* Lines 58-61: all scales tried; report the logo as detected or not.
detect_logos_report(s) ==
    /\ pc[s] = "scale"
    /\ frame[s].scaleIdx > Len(scales)
    /\ reported' = [reported EXCEPT ![s] = Append(@, <<frame[s].logoIdx, frame[s].detected>>)]
    /\ frame' = [frame EXCEPT ![s].logoIdx = @ + 1]
    /\ pc' = [pc EXCEPT ![s] = "logo"]
    /\ UNCHANGED <<textVars, test_image, logo_files, ret, drawn, returned, output_file>>

\* Lines 63-68: write output_files/detected_image.png and return the image.
detect_logos_save(s) ==
    /\ pc[s] = "save"
    /\ output_file' = frame[s].output_img
    /\ returned' = [returned EXCEPT ![s] = frame[s].output_img]
    /\ pc' = [pc EXCEPT ![s] = "done"]
    /\ UNCHANGED <<textVars, test_image, logo_files, ret, frame, drawn, reported>>

detect_logos(s) ==
    \/ detect_logos_open(s)
    \/ detect_logos_next_logo(s)
    \/ detect_logos_skip_scale(s)
    \/ detect_logos_resize_error(s)
    \/ detect_logos_match_scale(s)
    \/ detect_logos_report(s)
    \/ detect_logos_save(s)

\* ---- one invocation, on any document and logo ----------------------------
LogoPairs ==
    LET small == {MakeImage("end", 2, 1), MakeImage("flatR", 2, 2)}
    IN  {<<a, b>> : a \in small, b \in small}

Init ==
    /\ \E d \in Files, l \in {<<t>> : t \in LogoFilesOne} \cup LogoPairs :
          /\ test_image = [s \in Sessions |-> IF s = "s1" THEN d ELSE NoImage]
          /\ logo_files = [s \in Sessions |-> IF s = "s1" THEN l ELSE <<NoImage>>]
    /\ pc = [s \in Sessions |-> IF s = "s1" THEN "ready" ELSE "off"]
    /\ ret = [s \in Sessions |-> NoResult]
    /\ frame = [s \in Sessions |-> NoFrame]
    /\ drawn = [s \in Sessions |-> << >>]
    /\ reported = [s \in Sessions |-> << >>]
    /\ returned = [s \in Sessions |-> NoImage]
    /\ output_file = NoImage
    /\ TextIdle

Next ==
    \E s \in Sessions :
        \/ call_redact_logo_from_image(s)
        \/ call_redact_logo(s)
        \/ call_detect_logo(s)
        \/ call_text_extractor_detect_logos(s)
        \/ detect_logos(s)

Spec == Init /\ [][Next]_vars

\* ---- two sessions of the Streamlit app, interleaved ----------------------
SessionDocs == {MakeImage("checkerB", 3, 2), MakeImage("end", 2, 1)}
SessionLogos == {<<MakeImage("end", 2, 1)>>, <<MakeImage("dotB", 3, 2)>>}

InitSessions ==
    /\ test_image \in [Sessions -> SessionDocs]
    /\ logo_files \in [Sessions -> SessionLogos]
    /\ pc = [s \in Sessions |-> "ready"]
    /\ ret = [s \in Sessions |-> NoResult]
    /\ frame = [s \in Sessions |-> NoFrame]
    /\ drawn = [s \in Sessions |-> << >>]
    /\ reported = [s \in Sessions |-> << >>]
    /\ returned = [s \in Sessions |-> NoImage]
    /\ output_file = NoImage
    /\ TextIdle

NextSessions == \E s \in Sessions : detect_logos(s)

SpecSessions == InitSessions /\ [][NextSessions]_vars

(***************************************************************************)
(* The properties.                                                         *)
(***************************************************************************)
Called(s) == ret[s].op # "none"
Decoded(s) == test_image[s] # NoImage /\ TheLogo(s) # NoImage

InsideDocument(b, doc) ==
    /\ 0 <= b.x /\ 0 <= b.y
    /\ b.x + b.w <= doc.w /\ b.y + b.h <= doc.h

\* C1: every box a logo matcher produces lies inside the document:
\* 0 <= x, 0 <= y, x + w <= docWidth and y + h <= docHeight.
C1_BoxesInsideDocument ==
    \A s \in Sessions :
        /\ \A i \in 1..Len(ret[s].boxes) : InsideDocument(ret[s].boxes[i], test_image[s])
        /\ \A i \in 1..Len(drawn[s]) : InsideDocument(drawn[s][i].box, test_image[s])

InsideSomeBox(boxes, x, y) ==
    \E j \in 1..Len(boxes) :
        /\ boxes[j].x <= x /\ x < boxes[j].x + boxes[j].w
        /\ boxes[j].y <= y /\ y < boxes[j].y + boxes[j].h

\* C2: the image a redaction routine returns is black inside the matched boxes
\* [x, x+w) x [y, y+h), keeps the document's pixel everywhere else, and is the
\* document itself when nothing matched.
C2_RedactionPaintsExactlyTheBoxes ==
    \A s \in Sessions :
        ret[s].kind = "image" =>
            /\ \A i \in 1..Len(ret[s].image.px) :
                  ret[s].image.px[i] =
                      IF InsideSomeBox(ret[s].boxes, XOf(i, ret[s].image.w),
                                       YOf(i, ret[s].image.w))
                      THEN Black ELSE test_image[s].px[i]
            /\ ret[s].boxes = << >> => ret[s].image = test_image[s]

Oversize(logo, doc) == logo.w > doc.w \/ logo.h > doc.h

AllScalesOversize(logo, doc) ==
    \A k \in 1..Len(scales) :
        ScaledSize(logo.w, scales[k]) > doc.w \/ ScaledSize(logo.h, scales[k]) > doc.h

\* C3: a logo larger than the document at the scale tried is skipped without
\* raising, and a logo that fits at no scale gives an empty result (no box,
\* not detected), in the single-scale routines as in logo_streamlit.
C3_OversizeLogoIsSkipped ==
    \A s \in Sessions :
        /\ (Called(s) /\ Decoded(s) /\ Oversize(TheLogo(s), test_image[s])) =>
              /\ pc[s] # "raised"
              /\ ret[s].boxes = << >>
              /\ ret[s].value = FALSE
        /\ \A i \in 1..Len(reported[s]) :
              AllScalesOversize(logo_files[s][reported[s][i][1]], test_image[s]) =>
                  /\ reported[s][i][2] = FALSE
                  /\ \A j \in 1..Len(drawn[s]) : drawn[s][j].logo # reported[s][i][1]

\* What a routine returns when both images decode and nothing matches.
NoMatchValue(r) ==
    \/ r.kind = "bool" /\ r.value = FALSE
    \/ r.kind = "dict" /\ r.value = FALSE
    \/ r.kind = "empty"
    \/ r.kind = "image" /\ r.boxes = << >>

\* C4: when the document or the logo cannot be decoded, the caller is told so:
\* the routine does not return what it returns for "no match".
C4_DecodeFailureIsExplicit ==
    \A s \in Sessions :
        (Called(s) /\ ~Decoded(s)) => ~NoMatchValue(ret[s])

\* C5: the boolean presence check at 0.8 (detect_logo, and the entry of
\* text_extractor.detect_logos) is true iff redact_logo_from_image finds at
\* least one box on the same document and logo at 0.8.
C5_PresenceAgreesWithLocate ==
    \A s \in Sessions :
        (/\ Decoded(s)
         /\ \/ ret[s].op = "detect_logo"
            \/ ret[s].op = "detect_logos" /\ ret[s].kind = "dict" /\ ret[s].threshold = 8) =>
            (ret[s].value <=> redact_logo_from_image(test_image[s], TheLogo(s), 8).count > 0)

HitCells(res, t) == {i \in 1..Len(res.sc) : ScoreAtLeast(res.sc[i], t)}

\* One box per cell of the score map at or above the threshold, anchored at the
\* cell and w wide, h high; and no other box.
OneBoxPerHitCell(boxes, res, t, w, h) ==
    /\ Len(boxes) = Cardinality(HitCells(res, t))
    /\ \A i \in HitCells(res, t) :
          Cardinality({j \in 1..Len(boxes) :
                          boxes[j] = Box(XOf(i, res.w), YOf(i, res.w), w, h)}) = 1

\* The scales of logo l that session s has finished with.
ScaleDone(s, l, k) ==
    \/ pc[s] \in {"logo", "save", "done"} /\ l < frame[s].logoIdx
    \/ pc[s] = "scale" /\ (l < frame[s].logoIdx \/ (l = frame[s].logoIdx /\ k < frame[s].scaleIdx))

BoxesOf(s, l, k) ==
    LET hit == SelectSeq(drawn[s], LAMBDA e : e.logo = l /\ e.scale = k)
    IN  [i \in 1..Len(hit) |-> hit[i].box]

\* C6: at every scale that is not skipped there is exactly one box per cell of
\* that scale's score map at or above the threshold, sized as the scaled logo,
\* whatever was found at other scales; redact_logo_from_image counts exactly
\* the cells at or above its threshold.
C6_OneBoxPerCellAtEveryScale ==
    \A s \in Sessions :
        /\ ret[s].op = "redact_logo_from_image" /\ ret[s].kind = "image" =>
              /\ OneBoxPerHitCell(ret[s].boxes, matchTemplate(test_image[s], TheLogo(s)),
                                  ret[s].threshold, TheLogo(s).w, TheLogo(s).h)
              /\ ret[s].count = Cardinality(HitCells(matchTemplate(test_image[s], TheLogo(s)),
                                                     ret[s].threshold))
        /\ \A l \in 1..Len(logo_files[s]), k \in 1..Len(scales) :
              ScaleDone(s, l, k) =>
                  LET lg == cvtColorGray(logo_files[s][l])
                      w == ScaledSize(lg.w, scales[k])
                      h == ScaledSize(lg.h, scales[k])
                  IN  IF w > test_image[s].w \/ h > test_image[s].h
                      THEN BoxesOf(s, l, k) = << >>
                      ELSE OneBoxPerHitCell(BoxesOf(s, l, k),
                              matchTemplate(cvtColorGray(test_image[s]),
                                            resize(lg, w, h, frame[s].pat)),
                              StreamlitThreshold, w, h)

\* Boxes of two scales of one logo at the same anchor, both kept.
C6_Witness ==
    \E s \in Sessions : \E i, j \in 1..Len(drawn[s]) :
        /\ drawn[s][i].logo = drawn[s][j].logo
        /\ drawn[s][i].scale < drawn[s][j].scale
        /\ drawn[s][i].box.x = drawn[s][j].box.x
        /\ drawn[s][i].box.y = drawn[s][j].box.y
        /\ pc[s] = "done"

\* C7: the boxes of one logo are drawn scale by scale in the order of the
\* scale list, and within a scale row by row, left to right.
C7_ScaleThenRasterOrder ==
    \A s \in Sessions : \A i, j \in 1..Len(drawn[s]) :
        (i < j /\ drawn[s][i].logo = drawn[s][j].logo) =>
            \/ drawn[s][i].scale < drawn[s][j].scale
            \/ /\ drawn[s][i].scale = drawn[s][j].scale
               /\ \/ drawn[s][i].box.y < drawn[s][j].box.y
                  \/ /\ drawn[s][i].box.y = drawn[s][j].box.y
                     /\ drawn[s][i].box.x < drawn[s][j].box.x

\* Two boxes of one scale in different rows and columns, and one of a later scale.
C7_Witness ==
    \E s \in Sessions : \E i, j, k \in 1..Len(drawn[s]) :
        /\ drawn[s][i].scale = drawn[s][j].scale
        /\ drawn[s][i].box.y < drawn[s][j].box.y
        /\ drawn[s][i].box.x > drawn[s][j].box.x
        /\ drawn[s][k].scale > drawn[s][j].scale

BoxSet(r) == {r.boxes[i] : i \in 1..Len(r.boxes)}

\* C8: on the same document and logo, the boxes accepted at a higher threshold
\* are among those accepted at a lower one, there are no more of them, and a
\* logo not detected at the lower threshold is not detected at the higher.
C8_ThresholdMonotone ==
    \A s \in Sessions : \A t \in Thresholds :
        /\ (ret[s].op = "redact_logo_from_image" /\ ret[s].kind = "image"
              /\ t > ret[s].threshold) =>
              LET higher == redact_logo_from_image(test_image[s], TheLogo(s), t)
              IN  /\ BoxSet(higher) \subseteq BoxSet(ret[s])
                  /\ higher.count <= ret[s].count
        /\ (ret[s].op = "detect_logos" /\ ret[s].kind = "dict" /\ t > ret[s].threshold) =>
              (text_extractor_detect_logos(test_image[s], TRUE, TheLogo(s), t).value
                  => ret[s].value)

\* A box accepted at 0.6 that 0.8 rejects.
C8_Witness ==
    \E s \in Sessions :
        /\ ret[s].op = "redact_logo_from_image" /\ ret[s].kind = "image"
        /\ ret[s].threshold = 6
        /\ ret[s].count > redact_logo_from_image(test_image[s], TheLogo(s), 8).count

\* C9: no step changes the caller's document or logo images, and the array
\* made from the document stays as it was: the rectangles go to a copy.
C9_InputsNeverMutated ==
    [][\A s \in Sessions :
          /\ test_image'[s] = test_image[s]
          /\ logo_files'[s] = logo_files[s]
          /\ frame[s].img # NoImage => frame'[s].img = frame[s].img]_vars

\* A redaction and a detection that drew rectangles, beside their intact input.
C9_Witness ==
    \E s \in Sessions :
        \/ /\ ret[s].op = "redact_logo" /\ ret[s].count > 0
           /\ ret[s].image # test_image[s]
        \/ /\ pc[s] = "done" /\ drawn[s] # << >>
           /\ returned[s] # frame[s].img /\ frame[s].img = test_image[s]

\* C10: what an invocation of logo_streamlit.detect_logos saved is its own
\* output, whatever another session does: the file it wrote holds the image
\* it returned.
C10_SessionsShareNothing ==
    \A s \in Sessions : pc[s] = "done" => output_file = returned[s]

\* n * scale rounded to the nearest integer, a half going up or to the even
\* neighbour: the sizes "round" may mean.
RoundedSizes(n, scale) ==
    LET q == (n * scale) \div 4
        r == (n * scale) % 4
    IN  IF r < 2 THEN {q}
        ELSE IF r > 2 THEN {q + 1}
        ELSE {q + 1, IF q % 2 = 0 THEN q ELSE q + 1}

\* C11: at every scale the logo is matched at the size
\* (round(origWidth * s), round(origHeight * s)): every box drawn at a scale
\* has that size.
C11_ResizedToRoundedSize ==
    \A s \in Sessions : \A i \in 1..Len(drawn[s]) :
        LET e == drawn[s][i]
            logo == logo_files[s][e.logo]
        IN  /\ e.box.w \in RoundedSizes(logo.w, scales[e.scale])
            /\ e.box.h \in RoundedSizes(logo.h, scales[e.scale])

SameLuminance(a, b) == a # NoImage /\ b # NoImage /\ cvtColorGray(a) = cvtColorGray(b)

\* The match locations (and the present/absent answer) of a call's result.
Locations(r) == [at |-> {<<r.boxes[i].x, r.boxes[i].y>> : i \in 1..Len(r.boxes)},
                 present |-> r.value, kind |-> r.kind]

\* The routine of result r, called again on document d and logo l.
SameCall(r, d, l) ==
    CASE r.op = "redact_logo_from_image" -> redact_logo_from_image(d, l, r.threshold)
      [] r.op = "redact_logo" -> redact_logo(d, l)
      [] r.op = "detect_logo" -> detect_logo(d, l)
      [] r.op = "detect_logos" ->
            text_extractor_detect_logos(d, r.kind # "empty", l, r.threshold)

\* C12: colour takes no part in matching: a single-scale routine called on a
\* document and a logo with the same luminance images as the ones it was
\* called on gives the same match locations and the same present/absent
\* answer.
C12_ColourTakesNoPart ==
    \A s \in Sessions :
        (Called(s) /\ Decoded(s)) =>
            \A d \in Images, l \in Logos :
                (SameLuminance(d, test_image[s]) /\ SameLuminance(l, TheLogo(s))) =>
                    Locations(SameCall(ret[s], d, l)) = Locations(ret[s])

(***************************************************************************)
(* The example of data_cleanser (__main__): a white canvas, a logo placed  *)
(* on it with main_image[y:y+h, x:x+w] = logo, both written to disk, and   *)
(* redact_logo_from_image called on the two files with its default         *)
(* threshold 0.8.  Sizes and channel values are scaled down.               *)
(***************************************************************************)
White == <<4, 4, 4>>

\* np.ones((h, w, 3)) * 255
Canvas(w, h) == [w |-> w, h |-> h, px |-> Tuple([i \in 1..(w * h) |-> White])]

\* main_image[y:y+T.h, x:x+T.w] = T
Paste(D, T, x, y) ==
    [D EXCEPT !.px = Tuple([i \in 1..Len(D.px) |->
        IF /\ x <= XOf(i, D.w) /\ XOf(i, D.w) < x + T.w
           /\ y <= YOf(i, D.w) /\ YOf(i, D.w) < y + T.h
        THEN At(T, XOf(i, D.w) - x, YOf(i, D.w) - y) ELSE D.px[i]])]

InitMain ==
    /\ \E w \in 1..MaxW, h \in 1..MaxH, logo \in Logos :
          /\ logo.w <= w /\ logo.h <= h
          /\ \E x \in 0..(w - logo.w), y \in 0..(h - logo.h) :
                test_image = [s \in Sessions |->
                                 IF s = "s1" THEN Paste(Canvas(w, h), logo, x, y) ELSE NoImage]
          /\ logo_files = [s \in Sessions |-> IF s = "s1" THEN <<logo>> ELSE <<NoImage>>]
    /\ pc = [s \in Sessions |-> IF s = "s1" THEN "ready" ELSE "off"]
    /\ ret = [s \in Sessions |-> NoResult]
    /\ frame = [s \in Sessions |-> NoFrame]
    /\ drawn = [s \in Sessions |-> << >>]
    /\ reported = [s \in Sessions |-> << >>]
    /\ returned = [s \in Sessions |-> NoImage]
    /\ output_file = NoImage
    /\ TextIdle

main_logo_redaction(s) ==
    /\ pc[s] = "ready"
    /\ Finish(s, redact_logo_from_image(test_image[s], TheLogo(s), 8))

NextMain == \E s \in Sessions : main_logo_redaction(s)

SpecMain == InitMain /\ [][NextMain]_vars

\* The window of D at (x, y) is T, pixel for pixel.
PastedAt(D, T, x, y) ==
    /\ 0 <= x /\ x + T.w <= D.w /\ 0 <= y /\ y + T.h <= D.h
    /\ \A i \in 1..Len(T.px) : At(D, x + XOf(i, T.w), y + YOf(i, T.w)) = T.px[i]

\* The example itself: an all-black logo placed at (x, y) on a white canvas.
IsExample(D, T, x, y) ==
    /\ \A i \in 1..Len(T.px) : T.px[i] = Black
    /\ x \in 0..(D.w - T.w) /\ y \in 0..(D.h - T.h)
    /\ D = Paste(Canvas(D.w, D.h), T, x, y)

\* C13: a logo pasted pixel for pixel at (x, y) is found at 0.8 with a box
\* anchored at (x, y) of the logo's size; in the example (white canvas, one
\* all-black logo pasted) that box is the only one found and redacted.
C13_PastedLogoIsFoundOnce ==
    \A s \in Sessions :
        (ret[s].op = "redact_logo_from_image" /\ ret[s].kind = "image"
            /\ ret[s].threshold = 8) =>
            \A x \in 0..MaxW, y \in 0..MaxH :
                /\ PastedAt(test_image[s], TheLogo(s), x, y) =>
                      Box(x, y, TheLogo(s).w, TheLogo(s).h) \in BoxSet(ret[s])
                /\ IsExample(test_image[s], TheLogo(s), x, y) =>
                      (ret[s].boxes = <<Box(x, y, TheLogo(s).w, TheLogo(s).h)>>
                          /\ ret[s].count = 1)

Whitespace == {" ", "\n"}

\* str.strip(): leading and trailing whitespace removed.
RECURSIVE lstrip(_)
lstrip(str) == IF str # << >> /\ Head(str) \in Whitespace THEN lstrip(Tail(str)) ELSE str

RECURSIVE rstrip(_)
rstrip(str) ==
    IF str # << >> /\ str[Len(str)] \in Whitespace
    THEN rstrip(SubSeq(str, 1, Len(str) - 1)) ELSE str

strip(str) == rstrip(lstrip(str))

\* "not text or not text.strip()"
IsBlank(text) == text = << >> \/ strip(text) = << >>

\* Variant: the extension compared as it was typed.
keepCase(ext) == ext

\* str.lower() on the extensions that occur.
lower(ext) ==
    CASE ext = ".PNG" -> ".png"
      [] ext = ".Pdf" -> ".pdf"
      [] OTHER -> ext

ExtensionTokens == {".png", ".PNG", ".jpg", ".pdf", ".Pdf", ".pptx", ".txt", ".xlsx", ".xyz"}

\* os.path.splitext(name)[1]: the last part of the name from its last dot on,
\* or "" when the name has no dot.
splitext1(name) ==
    IF name # << >> /\ name[Len(name)] \in ExtensionTokens THEN name[Len(name)] ELSE ""

\* What the libraries raise on a file they cannot read.
LibraryError == "cannot read file"

(***************************************************************************)
(* data_extraction.extract_text_from_file(file_path) and its helpers.  A   *)
(* file on disk is its name, whether its library opens it, and its parts   *)
(* (pages, slides' shapes, or the one picture), each with its embedded     *)
(* text, the text OCR reads from it, and whether OCR fails on it.          *)
(* A result is the returned string, with failed telling whether an         *)
(* exception was caught or the type was unsupported on the way.            *)
(***************************************************************************)
TextResult(value, failed) == [value |-> value, failed |-> failed]

extract_text_from_image(file) ==
    IF ~file.opens \/ file.parts[1].ocr_fails
    THEN TextResult(<<"Error processing image ">> \o file.name \o <<": ", LibraryError>>, TRUE)
    ELSE TextResult(file.parts[1].ocr, FALSE)

\* Variant: a page OCR fails on ends the loop.
RECURSIVE PdfPagesUntilFailure(_, _, _)
PdfPagesUntilFailure(parts, i, acc) ==
    IF i > Len(parts) THEN acc
    ELSE LET page == parts[i]
         IN  IF page.text # << >>
             THEN PdfPagesUntilFailure(parts, i + 1,
                                       TextResult(acc.value \o page.text, acc.failed))
             ELSE IF page.ocr_fails THEN TextResult(acc.value, TRUE)
                  ELSE PdfPagesUntilFailure(parts, i + 1,
                                            TextResult(acc.value \o page.ocr, acc.failed))

RECURSIVE PdfPages(_, _, _)
PdfPages(parts, i, acc) ==
    IF i > Len(parts) THEN acc
    ELSE LET page == parts[i]
         IN  IF page.text # << >>
             THEN PdfPages(parts, i + 1, TextResult(acc.value \o page.text, acc.failed))
             ELSE IF page.ocr_fails
                  THEN PdfPages(parts, i + 1, TextResult(acc.value, TRUE))
                  ELSE PdfPages(parts, i + 1, TextResult(acc.value \o page.ocr, acc.failed))

extract_text_from_pdf(file) ==
    IF ~file.opens
    THEN TextResult(<<"Error processing PDF ">> \o file.name \o <<": ", LibraryError>>, TRUE)
    ELSE PdfPages(file.parts, 1, TextResult(<< >>, FALSE))

RECURSIVE PptxShapes(_, _, _)
PptxShapes(parts, i, text) ==
    IF i > Len(parts) THEN text
    ELSE PptxShapes(parts, i + 1, text \o parts[i].text \o <<"\n">>)

extract_text_from_pptx(file) ==
    IF ~file.opens
    THEN TextResult(<<"Error processing PPTX ">> \o file.name \o <<": ", LibraryError>>, TRUE)
    ELSE TextResult(PptxShapes(file.parts, 1, << >>), FALSE)

extract_text_from_file(file) ==
    LET file_extension == lower(splitext1(file.name))
    IN  IF file_extension \in {".jpg", ".jpeg", ".png"} THEN extract_text_from_image(file)
        ELSE IF file_extension = ".pdf" THEN extract_text_from_pdf(file)
        ELSE IF file_extension = ".pptx" THEN extract_text_from_pptx(file)
        ELSE TextResult(<<"Unsupported file type: ", file_extension>>, TRUE)

(***************************************************************************)
(* utils/data_cleanser.anonymize_text(text_to_clean, client_name).         *)
(* Presidio finds the tokens that are personal data and, when a client     *)
(* name is given, the tokens equal to it; presidio_fails tells whether     *)
(* one of its engines raises.                                              *)
(***************************************************************************)
PiiTokens == {"555-123-4567", "John Doe"}

\* analyzer.analyze(text, language='en'): one result per token found.
RECURSIVE analyze(_, _, _)
analyze(text, deny_list, i) ==
    IF i > Len(text) THEN << >>
    ELSE (IF <<text[i]>> \in deny_list THEN << [entity |-> "CLIENT_NAME", at |-> i] >>
          ELSE IF text[i] \in PiiTokens THEN << [entity |-> "PII", at |-> i] >>
          ELSE << >>) \o analyze(text, deny_list, i + 1)

\* anonymizer.anonymize(text, analyzer_results, operators)
anonymize(text, analyzer_results, custom) ==
    [i \in 1..Len(text) |->
        IF \E k \in 1..Len(analyzer_results) :
              analyzer_results[k].at = i /\ analyzer_results[k].entity = "CLIENT_NAME"
        THEN "<CLIENT_NAME_REDACTED>"
        ELSE IF \E k \in 1..Len(analyzer_results) : analyzer_results[k].at = i
             THEN (IF custom THEN "<REDACTED>" ELSE "<PII>")
             ELSE text[i]] \o << >>

anonymize_text(text_to_clean, client_name, presidio_fails) ==
    IF IsBlank(text_to_clean)
    THEN [kind |-> "return", value |-> <<<< >>, << >>>>, failed |-> FALSE]
    ELSE IF IsBlank(client_name)
    THEN IF presidio_fails
         THEN [kind |-> "raise", value |-> <<<< >>, << >>>>, failed |-> TRUE]
         ELSE LET analyzer_results == analyze(text_to_clean, {}, 1)
              IN  [kind |-> "return", failed |-> FALSE,
                   value |-> <<anonymize(text_to_clean, analyzer_results, FALSE),
                               analyzer_results>>]
    ELSE IF presidio_fails
         THEN [kind |-> "return", failed |-> TRUE,
               value |-> <<<<"An error occurred during text anonymization: ", LibraryError>>,
                           << >>>>]
         ELSE LET analyzer_results == analyze(text_to_clean, {client_name}, 1)
              IN  [kind |-> "return", failed |-> FALSE,
                   value |-> <<anonymize(text_to_clean, analyzer_results, TRUE),
                               analyzer_results>>]

(***************************************************************************)
(* utils/text_extractor.extract_text(uploaded_file).  An uploaded file is  *)
(* a file as above; a picture also carries its image and the state of the  *)
(* logo folder detect_logos looks into.  The returned dict is its keys and *)
(* the values of 'text' and 'error', each None or a string.                *)
(***************************************************************************)
None == [some |-> FALSE, v |-> << >>]
Some(v) == [some |-> TRUE, v |-> v]

\* str.lower() of a whole file name.
RECURSIVE lowerName(_)
lowerName(name) == IF name = << >> THEN << >> ELSE <<lower(Head(name))>> \o lowerName(Tail(name))

\* filename.endswith(ext)
endswith(name, ext) == name # << >> /\ name[Len(name)] = ext

RECURSIVE PagesText(_, _, _)
PagesText(parts, i, text) ==
    IF i > Len(parts) THEN text
    ELSE PagesText(parts, i + 1, text \o parts[i].text \o <<"\n">>)

RECURSIVE PartsText(_, _, _)
PartsText(parts, i, text) ==
    IF i > Len(parts) THEN text ELSE PartsText(parts, i + 1, text \o parts[i].text)

\* text_extractor.extract_text_from_file(file): [raised, text].
text_extractor_extract_text_from_file(file) ==
    LET filename == lowerName(file.name)
    IN  IF endswith(filename, ".txt") \/ endswith(filename, ".csv")
        THEN [raised |-> ~file.opens, text |-> PartsText(file.parts, 1, << >>)]
        ELSE IF endswith(filename, ".pdf")
        THEN [raised |-> ~file.opens, text |-> PagesText(file.parts, 1, << >>)]
        ELSE [raised |-> FALSE, text |-> << >>]

ExtractionError(uploaded_file) ==
    [kind |-> "return", keys |-> {"text", "error"}, text |-> None,
     error |-> Some(<<"Error processing ">> \o uploaded_file.name \o <<": ", LibraryError>>)]

ExtractionOk(text) ==
    [kind |-> "return", keys |-> {"text", "error"}, text |-> Some(text), error |-> None]

extract_text(uploaded_file) ==
    LET file_extension == lower(splitext1(uploaded_file.name))
    IN  IF file_extension \in {".jpg", ".jpeg", ".png"}
        THEN IF ~uploaded_file.opens \/ uploaded_file.parts[1].ocr_fails
             THEN ExtractionError(uploaded_file)
             ELSE LET logos_detected ==
                          text_extractor_detect_logos(uploaded_file.image,
                              uploaded_file.logo_folder.exists,
                              uploaded_file.logo_folder.logo, 8)
                  IN  IF logos_detected.kind = "raise" THEN ExtractionError(uploaded_file)
                      ELSE [ExtractionOk(uploaded_file.parts[1].ocr)
                               EXCEPT !.keys = {"text", "logos_detected", "error"}]
        ELSE IF file_extension \in {".txt", ".csv", ".pdf"}
        THEN LET r == text_extractor_extract_text_from_file(uploaded_file)
             IN  IF r.raised THEN ExtractionError(uploaded_file) ELSE ExtractionOk(r.text)
        ELSE IF file_extension = ".pptx"
        THEN IF ~uploaded_file.opens THEN ExtractionError(uploaded_file)
             ELSE ExtractionOk(PptxShapes(uploaded_file.parts, 1, << >>))
        ELSE IF file_extension = ".xlsx"
        THEN IF ~uploaded_file.opens THEN ExtractionError(uploaded_file)
             ELSE ExtractionOk(PagesText(uploaded_file.parts, 1, << >>))
        ELSE [kind |-> "return", keys |-> {"text", "error"}, text |-> None,
              error |-> Some(<<"Unsupported file format: ", file_extension>>)]

(***************************************************************************)
(* utils/content_interpreter.  A prompt template is a string in which the  *)
(* tokens "{name}" are input variables; the chain formats it with the      *)
(* dict it is invoked with and submits the result to the model.  What the  *)
(* model does is an input: llm.kind is "no_key" (ChatGroq cannot be built  *)
(* without GROQ_API_KEY), "error" (the call or the parsing of its output   *)
(* fails) or "ok" with llm.output.                                         *)
(***************************************************************************)
InputVariables == {"{input}", "{text}", "{pii_count}", "{format_instructions}"}

\* ChatPromptTemplate.from_template(template) formatted with args: variables
\* of the template are replaced by their values, a variable without a value
\* raises KeyError, values for variables the template does not have are
\* ignored.
RECURSIVE FormatFrom(_, _, _)
FormatFrom(template, args, i) ==
    IF i > Len(template) THEN << >>
    ELSE (IF template[i] \in InputVariables THEN args[template[i]] ELSE <<template[i]>>)
         \o FormatFrom(template, args, i + 1)

format_prompt(template, args) ==
    IF \E i \in 1..Len(template) :
          template[i] \in InputVariables /\ template[i] \notin DOMAIN args
    THEN [raised |-> TRUE, prompt |-> << >>]
    ELSE [raised |-> FALSE, prompt |-> FormatFrom(template, args, 1)]

IdentifyTemplate ==
    <<"Analyze the following document text. Identify the primary company, organization, or client that this document is about. [...] If you cannot determine the name with high confidence, respond with the word 'Unknown'.">>

InterpretTemplate ==
    <<"You are a Tier-3 cybersecurity analyst. [...] Based on the provided PII count (",
      "{pii_count}", "), determine the sensitivity level [...] Respond ONLY with a JSON object in this format: ",
      "{format_instructions}", " **Document Text to Analyze**: ", "{text}">>

\* Variant: the double quotes stay.
keepQuotes(str) == str

\* str.replace('"', '')
RECURSIVE removeQuotes(_)
removeQuotes(str) ==
    IF str = << >> THEN << >>
    ELSE (IF Head(str) = "\"" THEN << >> ELSE <<Head(str)>>) \o removeQuotes(Tail(str))

Unknown == <<"Unknown">>

\* identify_client_name(text_to_analyze): the name returned, the prompts
\* submitted to the model on the way, and whether an exception escaped.
identify_client_name(text_to_analyze, llm) ==
    IF ~text_to_analyze.some \/ IsBlank(text_to_analyze.v)
    THEN [kind |-> "return", value |-> Unknown, prompts |-> << >>]
    ELSE LET f == format_prompt(IdentifyTemplate, ("{input}" :> text_to_analyze.v))
         IN  IF llm.kind = "no_key" \/ f.raised
             THEN [kind |-> "return", value |-> Unknown, prompts |-> << >>]
             ELSE IF llm.kind = "error"
             THEN [kind |-> "return", value |-> Unknown, prompts |-> <<f.prompt>>]
             ELSE LET client_name == removeQuotes(strip(llm.output))
                  IN  [kind |-> "return", prompts |-> <<f.prompt>>,
                       value |-> IF client_name # << >> /\ client_name # Unknown
                                 THEN client_name ELSE Unknown]

str(n) == CASE n = 0 -> "0" [] n = 1 -> "1" [] OTHER -> "2"

ErrorRecord(message) ==
    [keys |-> {"error"}, error |-> message, pii_sensitivity_level |-> "",
     detailed_findings |-> "none"]

NoTextRecord ==
    [keys |-> {"executive_summary", "pii_sensitivity_level", "detailed_findings"},
     error |-> "", pii_sensitivity_level |-> "None", detailed_findings |-> "empty"]

\* Variant: the text is looked at before GROQ_API_KEY.
interpret_content_blank_first(text_to_analyze, pii_count, GROQ_API_KEY, llm) ==
    IF ~text_to_analyze.some \/ IsBlank(text_to_analyze.v)
    THEN [kind |-> "return", prompts |-> << >>, value |-> NoTextRecord]
    ELSE IF ~GROQ_API_KEY \/ llm.kind = "no_key"
    THEN [kind |-> "return", prompts |-> << >>,
          value |-> ErrorRecord("GROQ_API_KEY environment variable not set!")]
    ELSE IF llm.kind = "error"
    THEN [kind |-> "return", prompts |-> <<<<"prompt">>>>,
          value |-> ErrorRecord("An error occurred during AI analysis")]
    ELSE [kind |-> "return", prompts |-> <<<<"prompt">>>>, value |-> llm.output]

\* interpret_content(text_to_analyze, pii_count) with GROQ_API_KEY set or not.
interpret_content(text_to_analyze, pii_count, GROQ_API_KEY, llm) ==
    IF ~GROQ_API_KEY
    THEN [kind |-> "return", prompts |-> << >>,
          value |-> ErrorRecord("GROQ_API_KEY environment variable not set!")]
    ELSE IF ~text_to_analyze.some \/ IsBlank(text_to_analyze.v)
    THEN [kind |-> "return", prompts |-> << >>, value |-> NoTextRecord]
    ELSE LET f == format_prompt(InterpretTemplate,
                     [v \in {"{text}", "{pii_count}", "{format_instructions}"} |->
                        CASE v = "{text}" -> text_to_analyze.v
                          [] v = "{pii_count}" -> <<str(pii_count)>>
                          [] OTHER -> <<"The output should be formatted as a JSON instance [...]">>])
         IN  IF llm.kind = "no_key" \/ f.raised
             THEN [kind |-> "return", prompts |-> << >>,
                   value |-> ErrorRecord("An error occurred during AI analysis")]
             ELSE IF llm.kind = "error"
             THEN [kind |-> "return", prompts |-> <<f.prompt>>,
                   value |-> ErrorRecord("An error occurred during AI analysis")]
             ELSE [kind |-> "return", prompts |-> <<f.prompt>>, value |-> llm.output]

\* ---- the files and texts the text routines are called on ------------------
\* Most parts (pages, shapes) a file has.
MaxParts == 2

FileNames == {<<"scan", ".png">>, <<"scan", ".PNG">>, <<"doc", ".pdf">>,
              <<"deck", ".pptx">>, <<"notes", ".xyz">>, <<"README">>}

Part(text, ocr, ocr_fails) == [text |-> text, ocr |-> ocr, ocr_fails |-> ocr_fails]

BlankPart == Part(<< >>, << >>, FALSE)

\* The strings extract_text_from_file returns for files it cannot read.
ErrorTexts ==
    {extract_text_from_file([name |-> n, opens |-> FALSE, parts |-> <<BlankPart>>]).value :
        n \in FileNames}

\* A blank part, a part with embedded text, one whose rendering OCR misreads,
\* a scanned part, a part OCR fails on, and parts whose text reads like a
\* message of the program.
Parts ==
    {BlankPart, Part(<<"Acme report">>, <<"Acme report">>, FALSE),
     Part(<<"Globex memo">>, <<"Gl0bex mem0">>, FALSE),
     Part(<< >>, <<"Acme report">>, FALSE), Part(<< >>, << >>, TRUE)}
    \cup {Part(t, t, FALSE) : t \in ErrorTexts}

RECURSIVE SeqsUpTo(_, _)
SeqsUpTo(S, n) ==
    IF n = 0 THEN {<< >>}
    ELSE LET shorter == SeqsUpTo(S, n - 1)
         IN  shorter \cup {Append(q, x) : q \in shorter, x \in S}

DiskFiles ==
    {[name |-> n, opens |-> o, parts |-> p] :
        n \in FileNames, o \in BOOLEAN, p \in SeqsUpTo(Parts, MaxParts) \ {<< >>}}

CleanserTexts ==
    {<< >>, <<" ">>, <<"Acme", " ", "report">>, <<"call", " ", "555-123-4567">>,
     <<"An error occurred during text anonymization: ", LibraryError>>}

ClientNames == {<< >>, <<" ">>, <<"Acme">>, <<"Unknown">>}

\* ---- the files uploaded ----------------------------------------------------
UploadNames == {<<"scan", ".png">>, <<"scan", ".PNG">>, <<"doc", ".pdf">>, <<"doc", ".Pdf">>,
                <<"deck", ".pptx">>, <<"notes", ".txt">>, <<"book", ".xlsx">>,
                <<"notes", ".xyz">>, <<"README">>}

Picture == MakeImage("end", 2, 1)

NoLogoFolder == [exists |-> FALSE, logo |-> NoImage]

\* assets/logos/: missing; holding an unreadable file; holding a logo that is
\* in the picture; holding a logo taller than the picture.
LogoFolders ==
    {NoLogoFolder, [exists |-> TRUE, logo |-> NoImage],
     [exists |-> TRUE, logo |-> MakeImage("end", 2, 1)],
     [exists |-> TRUE, logo |-> MakeImage("end", 1, 2)]}

UploadParts ==
    {BlankPart, Part(<<"Acme report">>, <<"Acme report">>, FALSE), Part(<< >>, << >>, TRUE)}

IsPictureName(n) == n[Len(n)] \in {".png", ".PNG", ".jpg"}

UploadedFiles ==
    {f \in [name : UploadNames, opens : BOOLEAN,
             parts : SeqsUpTo(UploadParts, MaxParts) \ {<< >>},
             image : {Picture}, logo_folder : LogoFolders] :
        IsPictureName(f.name) \/ f.logo_folder = NoLogoFolder}

\* The texts analysed: None, blank ones, and two documents.
OptionTexts ==
    {None, Some(<< >>), Some(<<" ", "\n">>), Some(<<"Acme report">>), Some(<<"Globex memo">>)}

\* What the model may answer when asked for the client name.
LlmNames ==
    {<<"Acme">>, <<"\"", "Acme", "\"">>, <<" ", "Acme", "\n">>, << >>, <<" ">>,
     <<"\"", "\"">>, <<"Unknown">>, <<"\"", "Unknown", "\"">>, <<"\"", " ", "\"">>}

IdentifyLlm ==
    {[kind |-> k, output |-> << >>] : k \in {"no_key", "error"}}
    \cup {[kind |-> "ok", output |-> o] : o \in LlmNames}

\* What the JSON parser may return for the model's analysis: a report, and a
\* report whose findings lack the fields display_report reads.
GoodAnalysis ==
    [keys |-> {"executive_summary", "pii_sensitivity_level", "detailed_findings"},
     error |-> "", pii_sensitivity_level |-> "Low", detailed_findings |-> "ok"]

MalformedAnalysis == [GoodAnalysis EXCEPT !.detailed_findings = "malformed"]

InterpretLlm ==
    {[kind |-> k, output |-> GoodAnalysis] : k \in {"no_key", "error"}}
    \cup {[kind |-> "ok", output |-> o] : o \in {GoodAnalysis, MalformedAnalysis}}

TextCalls ==
    {[op |-> "extract_text_from_file", file |-> f] : f \in DiskFiles}
    \cup {[op |-> "anonymize_text", text |-> t, client_name |-> c, presidio_fails |-> b] :
            t \in CleanserTexts, c \in ClientNames, b \in BOOLEAN}
    \cup {[op |-> "extract_text", file |-> f] : f \in UploadedFiles}
    \cup {[op |-> "identify_client_name", text |-> t, llm |-> m] :
            t \in OptionTexts, m \in IdentifyLlm}
    \cup {c \in {[op |-> "interpret_content", text |-> t, pii_count |-> n,
                   GROQ_API_KEY |-> k, llm |-> m] :
                     t \in OptionTexts, n \in 0..1, k \in BOOLEAN, m \in InterpretLlm} :
            (c.llm.kind = "no_key") = ~c.GROQ_API_KEY}

\* No image routine is running.
ImageIdle ==
    /\ test_image = [s \in Sessions |-> NoImage]
    /\ logo_files = [s \in Sessions |-> <<NoImage>>]
    /\ pc = [s \in Sessions |-> "off"]
    /\ ret = [s \in Sessions |-> NoResult]
    /\ frame = [s \in Sessions |-> NoFrame]
    /\ drawn = [s \in Sessions |-> << >>]
    /\ reported = [s \in Sessions |-> << >>]
    /\ returned = [s \in Sessions |-> NoImage]
    /\ output_file = NoImage

imageVars == <<test_image, logo_files, pc, ret, frame, drawn, reported, returned, output_file>>

InitText ==
    /\ ImageIdle
    /\ BatchIdle
    /\ text_in \in TextCalls
    /\ text_ret = NoTextCall

call_extract_text_from_file ==
    /\ text_in.op = "extract_text_from_file" /\ text_ret = NoTextCall
    /\ text_ret' = [op |-> text_in.op, kind |-> "return",
                   value |-> extract_text_from_file(text_in.file).value,
                   failed |-> extract_text_from_file(text_in.file).failed]
    /\ UNCHANGED <<imageVars, batchVars, text_in>>

call_anonymize_text ==
    /\ text_in.op = "anonymize_text" /\ text_ret = NoTextCall
    /\ text_ret' = [op |-> text_in.op] @@
                      anonymize_text(text_in.text, text_in.client_name, text_in.presidio_fails)
    /\ UNCHANGED <<imageVars, batchVars, text_in>>

\* The app of text_extractor itself: result = extract_text(uploaded_file).
call_extract_text ==
    /\ text_in.op = "extract_text" /\ text_ret = NoTextCall
    /\ text_ret' = [op |-> text_in.op, failed |-> FALSE] @@ extract_text(text_in.file)
    /\ UNCHANGED <<imageVars, batchVars, text_in>>

call_identify_client_name ==
    /\ text_in.op = "identify_client_name" /\ text_ret = NoTextCall
    /\ text_ret' = [op |-> text_in.op, failed |-> FALSE] @@
                      identify_client_name(text_in.text, text_in.llm)
    /\ UNCHANGED <<imageVars, batchVars, text_in>>

call_interpret_content ==
    /\ text_in.op = "interpret_content" /\ text_ret = NoTextCall
    /\ text_ret' = [op |-> text_in.op, failed |-> FALSE] @@
                      interpret_content(text_in.text, text_in.pii_count,
                                        text_in.GROQ_API_KEY, text_in.llm)
    /\ UNCHANGED <<imageVars, batchVars, text_in>>

NextText ==
    \/ call_extract_text_from_file
    \/ call_anonymize_text
    \/ call_extract_text
    \/ call_identify_client_name
    \/ call_interpret_content

SpecText == InitText /\ [][NextText]_vars

\* The routine of text_in succeeds on the arguments c and returns v.
SucceedsWith(c, v) ==
    IF c.op = "extract_text_from_file"
    THEN ~extract_text_from_file(c.file).failed /\ extract_text_from_file(c.file).value = v
    ELSE IF c.op # "anonymize_text" THEN FALSE
    ELSE LET r == anonymize_text(c.text, c.client_name, c.presidio_fails)
         IN  ~r.failed /\ r.kind = "return" /\ r.value = v

\* C15: what extract_text_from_file and anonymize_text return when processing
\* failed is returned by no successful call, one that found no text included:
\* the caller can tell a failure from every success.
C15_FailureDistinctFromSuccess ==
    (text_ret # NoTextCall /\ text_ret.failed /\ text_ret.kind = "return") =>
        \A c \in TextCalls : c.op = text_ret.op => ~SucceedsWith(c, text_ret.value)

\* The extensions extract_text handles, in the spellings that occur.
PictureExtensions == {".png", ".PNG", ".jpg"}
HandledExtensions == PictureExtensions \cup {".pdf", ".Pdf", ".pptx", ".txt", ".xlsx"}

\* C16: extract_text always returns (never raises) a record with exactly one
\* of 'text' and 'error' set: text on success; an error message, and no text,
\* for an unsupported extension or a file that cannot be read; the key
\* 'logos_detected' is there iff the file is a picture and extraction
\* succeeded; the extension is recognised in any letter case.
C16_ExtractTextRecord ==
    text_ret.op = "extract_text" =>
        LET f == text_in.file
            ext == f.name[Len(f.name)]
        IN  /\ text_ret.kind = "return"
            /\ text_ret.text.some # text_ret.error.some
            /\ text_ret.error.some => text_ret.error.v # << >>
            /\ ext \notin HandledExtensions =>
                  /\ text_ret.text = None
                  /\ text_ret.error = Some(<<"Unsupported file format: ",
                                             IF ext \in ExtensionTokens THEN ext ELSE "">>)
            /\ (ext \in HandledExtensions /\ ~f.opens) =>
                  (text_ret.text = None /\ text_ret.error.some)
            /\ ext \in HandledExtensions =>
                  (text_ret.error.some => text_ret.error.v[1] = "Error processing ")
            /\ ("logos_detected" \in text_ret.keys) <=>
                  (ext \in PictureExtensions /\ text_ret.text.some)

\* A readable picture named in capitals, extracted with its logo entry.
C16_Witness ==
    /\ text_ret.op = "extract_text"
    /\ text_in.file.name = <<"scan", ".PNG">>
    /\ text_ret.text.some /\ text_ret.error = None
    /\ "logos_detected" \in text_ret.keys

\* a occurs in b as a run of consecutive tokens.
IsInfix(a, b) == \E i \in 0..(Len(b) - Len(a)) : SubSeq(b, i + 1, i + Len(a)) = a

\* C17: for a text that is not blank, the prompt identify_client_name submits
\* to the model contains the text.
C17_PromptContainsTheText ==
    text_ret.op = "identify_client_name" =>
        \A k \in 1..Len(text_ret.prompts) : IsInfix(text_in.text.v, text_ret.prompts[k])

\* C18: interpret_content never raises and checks in a fixed order: without
\* GROQ_API_KEY it returns a record with the key 'error', whatever the text;
\* otherwise, for a text that is None, empty or whitespace, it returns the
\* fixed record with pii_sensitivity_level 'None' and empty findings, and the
\* model is not called; otherwise the model is called once and its parsed
\* result is returned, or a record with the key 'error' if the call or the
\* parsing failed.
C18_InterpretContentOrder ==
    text_ret.op = "interpret_content" =>
        LET blank == ~text_in.text.some \/ \A i \in 1..Len(text_in.text.v) :
                                             text_in.text.v[i] \in Whitespace
        IN  /\ text_ret.kind = "return"
            /\ ~text_in.GROQ_API_KEY =>
                  ("error" \in text_ret.value.keys /\ text_ret.prompts = << >>)
            /\ (text_in.GROQ_API_KEY /\ blank) =>
                  /\ text_ret.value.keys =
                        {"executive_summary", "pii_sensitivity_level", "detailed_findings"}
                  /\ text_ret.value.pii_sensitivity_level = "None"
                  /\ text_ret.value.detailed_findings = "empty"
                  /\ text_ret.prompts = << >>
            /\ (text_in.GROQ_API_KEY /\ ~blank) =>
                  /\ Len(text_ret.prompts) = 1
                  /\ text_in.llm.kind = "ok" => text_ret.value = text_in.llm.output
                  /\ text_in.llm.kind = "error" => "error" \in text_ret.value.keys

\* Called on a blank text without GROQ_API_KEY: the missing key is reported.
C18_Witness ==
    /\ text_ret.op = "interpret_content"
    /\ ~text_in.GROQ_API_KEY
    /\ text_in.text = Some(<<" ", "\n">>)
    /\ "error" \in text_ret.value.keys

\* C19: identify_client_name never raises and never returns an empty string.
\* It returns 'Unknown' without calling the model when the text is None, empty
\* or whitespace; 'Unknown' when the call fails or the output is empty once
\* whitespace is stripped from its ends and its double quotes are removed;
\* and that stripped output otherwise.
C19_ClientNameNeverEmpty ==
    text_ret.op = "identify_client_name" =>
        LET t == text_in.text
            blank == ~t.some \/ \A i \in 1..Len(t.v) : t.v[i] \in Whitespace
            out == text_in.llm.output
            inner == {i \in 1..Len(out) : out[i] \notin Whitespace}
            first == CHOOSE i \in inner : \A j \in inner : i <= j
            last == CHOOSE i \in inner : \A j \in inner : j <= i
            stripped == IF inner = {} THEN << >>
                        ELSE SelectSeq(SubSeq(out, first, last), LAMBDA c : c # "\"")
        IN  /\ text_ret.kind = "return"
            /\ text_ret.value # << >>
            /\ blank => (text_ret.value = <<"Unknown">> /\ text_ret.prompts = << >>)
            /\ (~blank /\ text_in.llm.kind # "ok") => text_ret.value = <<"Unknown">>
            /\ (~blank /\ text_in.llm.kind = "ok") =>
                  /\ Len(text_ret.prompts) = 1
                  /\ text_ret.value = IF stripped = << >> THEN <<"Unknown">> ELSE stripped

\* The model answers "Acme" in double quotes, and Acme is the name returned.
C19_Witness ==
    /\ text_ret.op = "identify_client_name"
    /\ text_in.text = Some(<<"Acme report">>)
    /\ text_in.llm = [kind |-> "ok", output |-> <<"\"", "Acme", "\"">>]
    /\ text_ret.value = <<"Acme">>

(***************************************************************************)
(* The batch loop of main.py and utils/fronted.py: for each uploaded file, *)
(* extract_text, identify_client_name, anonymize_text, interpret_content   *)
(* and display_report, one step at a time.  What the model answers and     *)
(* whether Presidio fails are chosen at each call.                         *)
(***************************************************************************)
\* Most files uploaded at once.
MaxFiles == 2

\* main.py: fewer characters than this is "very little text".
MinTextLength == 10

\* len(str): the characters of the tokens.
RECURSIVE len(_)
len(string) ==
    IF string = << >> THEN 0
    ELSE (IF Head(string) = "Acme report" THEN 11 ELSE 1) + len(Tail(string))

UploadOf(name, opens, part) ==
    [name |-> name, opens |-> opens, parts |-> <<part>>, image |-> Picture,
     logo_folder |-> NoLogoFolder]

\* A document with text, one that cannot be opened, one without text, and a
\* scan OCR fails on.
BatchFiles ==
    {UploadOf(<<"doc", ".pdf">>, TRUE, Part(<<"Acme report">>, <<"Acme report">>, FALSE)),
     UploadOf(<<"doc", ".pdf">>, FALSE, Part(<<"Acme report">>, <<"Acme report">>, FALSE)),
     UploadOf(<<"doc", ".pdf">>, TRUE, BlankPart),
     UploadOf(<<"scan", ".PNG">>, TRUE, Part(<< >>, << >>, TRUE))}

\* display_report(file, result): the findings are read item by item, and an
\* item without 'title' or 'description' raises.
display_report(file, result) ==
    IF result.detailed_findings = "malformed" THEN [kind |-> "raise"] ELSE [kind |-> "return"]

\* Variant: the loop body without the check of `error`.
check_extraction_unchecked(script, extraction_result) == "proceed"

\* What the loop body does with the result of extract_text: st.error and
\* continue, st.warning and continue (main.py only), or go on.
check_extraction(script, extraction_result) ==
    LET text == extraction_result.text
        error == extraction_result.error
    IN  IF error.some /\ error.v # << >> THEN "st.error"
        ELSE IF script = "main" /\ (~text.some \/ text.v = << >>
                                      \/ len(strip(text.v)) < MinTextLength)
        THEN "st.warning"
        ELSE "proceed"

InitBatch ==
    /\ ImageIdle
    /\ text_in = NoTextCall /\ text_ret = NoTextCall
    /\ app \in {"main", "fronted"}
    /\ environ \in [GROQ_API_KEY : BOOLEAN]
    /\ uploaded_files \in SeqsUpTo(BatchFiles, MaxFiles)
    /\ file_index = 0
    /\ at = "button"
    /\ locals = LocalsUnbound
    /\ calls = << >>
    /\ shown = << >>
    /\ prompted = << >>
    /\ analysed = << >>

Logged(op) == Append(calls, [file |-> file_index, op |-> op])

\* st.error, st.warning, the report or the exception shown for the file.
Shows(what) == shown' = Append(shown, [file |-> file_index, what |-> what])

\* The prompts a call submitted to the model, logged for the file.
Prompts(op, prompts) ==
    prompted' = prompted \o [k \in 1..Len(prompts) |-> [file |-> file_index, op |-> op]]

\* `continue`, or the end of the loop body: the next file, or st.success.
NextIteration ==
    /\ file_index' = file_index + 1
    /\ at' = IF file_index < Len(uploaded_files) THEN "extract_text" ELSE "done"

\* if st.button(...): if not uploaded_files: st.warning(...) else: for ...
batch_button ==
    /\ at = "button"
    /\ IF uploaded_files = << >>
       THEN at' = "warned" /\ UNCHANGED file_index
       ELSE at' = "extract_text" /\ file_index' = 1
    /\ UNCHANGED <<imageVars, text_in, text_ret, app, environ, uploaded_files, locals, calls,
                   shown, prompted, analysed>>

batch_extract_text ==
    /\ at = "extract_text"
    /\ \E extraction_result \in {extract_text(uploaded_files[file_index])} :
          /\ locals' = [locals EXCEPT !.raw_text = extraction_result.text]
          /\ calls' = Logged("extract_text")
          /\ IF check_extraction(app, extraction_result) = "proceed"
             THEN at' = "identify_client_name" /\ UNCHANGED <<file_index, shown>>
             ELSE /\ Shows(IF check_extraction(app, extraction_result) = "st.error"
                           THEN "extraction error" ELSE "warning")
                  /\ NextIteration
    /\ UNCHANGED <<imageVars, text_in, text_ret, app, environ, uploaded_files, prompted,
                   analysed>>

batch_identify_client_name ==
    /\ at = "identify_client_name"
    /\ \E llm \in IdentifyLlm :
          /\ (llm.kind = "no_key") = ~environ.GROQ_API_KEY
          /\ locals' = [locals EXCEPT
                           !.client_name = identify_client_name(locals.raw_text, llm).value]
          /\ Prompts("identify_client_name",
                     identify_client_name(locals.raw_text, llm).prompts)
    /\ calls' = Logged("identify_client_name")
    /\ at' = "anonymize_text"
    /\ UNCHANGED <<imageVars, text_in, text_ret, app, environ, uploaded_files, file_index,
                   shown, analysed>>

batch_anonymize_text ==
    /\ at = "anonymize_text"
    /\ calls' = Logged("anonymize_text")
    /\ \E presidio_fails \in BOOLEAN :
          \E r \in {anonymize_text(locals.raw_text.v, locals.client_name, presidio_fails)} :
             IF r.kind = "raise"
             THEN at' = "raised" /\ Shows("exception") /\ UNCHANGED locals
             ELSE /\ at' = "interpret_content"
                  /\ locals' = [locals EXCEPT !.anonymized_text = r.value[1],
                                              !.pii_count = Len(r.value[2])]
                  /\ UNCHANGED shown
    /\ UNCHANGED <<imageVars, text_in, text_ret, app, environ, uploaded_files, file_index,
                   prompted, analysed>>

batch_interpret_content ==
    /\ at = "interpret_content"
    /\ calls' = Logged("interpret_content")
    /\ \E llm \in InterpretLlm :
          /\ (llm.kind = "no_key") = ~environ.GROQ_API_KEY
          /\ \E r \in {interpret_content(Some(locals.anonymized_text), locals.pii_count,
                                          environ.GROQ_API_KEY, llm)} :
                /\ locals' = [locals EXCEPT !.analysis_result = r.value]
                /\ Prompts("interpret_content", r.prompts)
                /\ analysed' = Append(analysed, [file |-> file_index, result |-> r.value])
    /\ at' = "report"
    /\ UNCHANGED <<imageVars, text_in, text_ret, app, environ, uploaded_files, file_index,
                   shown>>

\* if "error" in analysis_result: st.error(...) else: display_report(...)
batch_report ==
    /\ at = "report"
    /\ IF "error" \in locals.analysis_result.keys
       THEN Shows("analysis error") /\ NextIteration /\ UNCHANGED calls
       ELSE /\ calls' = Logged("display_report")
            /\ IF display_report(uploaded_files[file_index], locals.analysis_result).kind = "raise"
               THEN at' = "raised" /\ Shows("exception") /\ UNCHANGED file_index
               ELSE Shows("report") /\ NextIteration
    /\ UNCHANGED <<imageVars, text_in, text_ret, app, environ, uploaded_files, locals,
                   prompted, analysed>>

NextBatch ==
    \/ batch_button
    \/ batch_extract_text
    \/ batch_identify_client_name
    \/ batch_anonymize_text
    \/ batch_interpret_content
    \/ batch_report

SpecBatch == InitBatch /\ [][NextBatch]_vars

FileOutcomes == {"extraction error", "warning", "analysis error", "report"}

\* C21: in main.py, once the run is over, every file has ended in exactly one
\* of the outcomes extraction error, too-little-text warning, analysis error
\* and report displayed; the report is displayed iff extraction returned no
\* error, the text has at least 10 characters after stripping whitespace, and
\* the analysis result has no 'error' key; and the model was called for a file
\* only if it ended in analysis error or report.
C21_ReportIffAllThree ==
    (app = "main" /\ at \in {"done", "raised"}) =>
        \A k \in 1..Len(uploaded_files) :
            LET extraction == extract_text(uploaded_files[k])
                ended == {i \in 1..Len(shown) : shown[i].file = k}
                EndsIn(what) == \E i \in ended : shown[i].what = what
                enough == extraction.text.some
                             /\ len(strip(extraction.text.v)) >= MinTextLength
                analysedOk == \E i \in 1..Len(analysed) :
                                 /\ analysed[i].file = k
                                 /\ "error" \notin analysed[i].result.keys
            IN  /\ Cardinality(ended) = 1
                /\ \A i \in ended : shown[i].what \in FileOutcomes
                /\ EndsIn("report") <=> (~extraction.error.some /\ enough /\ analysedOk)
                /\ (\E i \in 1..Len(prompted) : prompted[i].file = k) =>
                      (EndsIn("analysis error") \/ EndsIn("report"))

(***************************************************************************)
(* utils/file_cleanser_analysis_app: its own extract_text_from_file,       *)
(* anonymize_text and get_summary_and_findings, and the handler of the     *)
(* "Process File" button that chains them.  None of them catches an        *)
(* exception.                                                              *)
(***************************************************************************)
file_cleanser_analysis_app_extract_text_from_file(file_obj) ==
    LET file_extension == lower(splitext1(file_obj.name))
    IN  IF file_extension \in {".jpg", ".jpeg", ".png"}
        THEN IF ~file_obj.opens \/ file_obj.parts[1].ocr_fails
             THEN [kind |-> "raise", value |-> << >>]
             ELSE [kind |-> "return", value |-> file_obj.parts[1].ocr]
        ELSE IF file_extension = ".pdf"
        THEN IF ~file_obj.opens THEN [kind |-> "raise", value |-> << >>]
             ELSE [kind |-> "return", value |-> PartsText(file_obj.parts, 1, << >>)]
        ELSE IF file_extension = ".pptx"
        THEN IF ~file_obj.opens THEN [kind |-> "raise", value |-> << >>]
             ELSE [kind |-> "return", value |-> PptxShapes(file_obj.parts, 1, << >>)]
        ELSE [kind |-> "return", value |-> <<"Unsupported file format.">>]

\* anonymize_text(text_to_clean, client_name) of the app: a string, or an
\* exception of Presidio.
file_cleanser_analysis_app_anonymize_text(text_to_clean, client_name, presidio_fails) ==
    IF strip(text_to_clean) = << >> \/ strip(client_name) = << >>
    THEN [kind |-> "return", value |-> text_to_clean]
    ELSE IF presidio_fails THEN [kind |-> "raise", value |-> << >>]
    ELSE LET analyzer_results == analyze(text_to_clean, {client_name}, 1)
         IN  [kind |-> "return",
              value |-> [i \in 1..Len(text_to_clean) |->
                            IF \E k \in 1..Len(analyzer_results) : analyzer_results[k].at = i
                            THEN "<REDACTED>" ELSE text_to_clean[i]] \o << >>]

SummaryTemplate ==
    <<"You are an expert security analyst. Extract a file description and key findings from the user's text. Respond with a JSON object that follows this format: ",
      "{format_instructions}", "{text}">>

\* What the JSON parser may return for the model's summary: a summary, one
\* without 'file_description', and an empty object.
GoodSummary == [keys |-> {"file_description", "key_findings"}]
SummaryOutputs == {GoodSummary, [keys |-> {"key_findings"}], [keys |-> {}]}

SummaryLlm ==
    {[kind |-> k, output |-> GoodSummary] : k \in {"no_key", "error"}}
    \cup {[kind |-> "ok", output |-> o] : o \in SummaryOutputs}

\* get_summary_and_findings(text_to_analyze): None (value.some FALSE) after
\* st.error without the key, the fixed summary for blank text, the parsed
\* answer of the model, or the exception of the call.
get_summary_and_findings(text_to_analyze, environ_GROQ_API_KEY, llm) ==
    IF ~environ_GROQ_API_KEY
    THEN [kind |-> "return", prompts |-> << >>, value |-> [some |-> FALSE, v |-> GoodSummary]]
    ELSE IF strip(text_to_analyze) = << >>
    THEN [kind |-> "return", prompts |-> << >>, value |-> [some |-> TRUE, v |-> GoodSummary]]
    ELSE LET f == format_prompt(SummaryTemplate,
                     [v \in {"{text}", "{format_instructions}"} |->
                        IF v = "{text}" THEN text_to_analyze
                        ELSE <<"The output should be formatted as a JSON instance [...]">>])
         IN  IF llm.kind = "no_key" \/ f.raised
             THEN [kind |-> "raise", prompts |-> << >>,
                   value |-> [some |-> FALSE, v |-> GoodSummary]]
             ELSE IF llm.kind = "error"
             THEN [kind |-> "raise", prompts |-> <<f.prompt>>,
                   value |-> [some |-> FALSE, v |-> GoodSummary]]
             ELSE [kind |-> "return", prompts |-> <<f.prompt>>,
                   value |-> [some |-> TRUE, v |-> llm.output]]

\* ---- the "Process File" handler --------------------------------------------
PiiPart == Part(<<"call", " ", "555-123-4567">>, <<"call", " ", "555-123-4567">>, FALSE)

\* No file uploaded: st.file_uploader returned None.
NoUpload == UploadOf(<< >>, FALSE, BlankPart)

\* A document and a picture with personal data, a document without text, one
\* that cannot be opened, and a presentation.
AppFiles ==
    {UploadOf(<<"doc", ".pdf">>, TRUE, PiiPart), UploadOf(<<"scan", ".PNG">>, TRUE, PiiPart),
     UploadOf(<<"doc", ".pdf">>, TRUE, BlankPart), UploadOf(<<"doc", ".pdf">>, FALSE, PiiPart),
     UploadOf(<<"deck", ".pptx">>, TRUE, Part(<<"Acme">>, << >>, FALSE)), NoUpload}

\* logo_file: none, a logo that is in the picture, a logo taller than it.
AppLogos == {NoImage, MakeImage("end", 2, 1), MakeImage("end", 1, 2)}

ProcessFileInputs ==
    {c \in [op : {"process_file"}, uploaded_file : AppFiles, client_name : ClientNames,
            logo_file : AppLogos, GROQ_API_KEY : BOOLEAN, llm : SummaryLlm,
            presidio_fails : BOOLEAN] :
        (c.llm.kind = "no_key") = ~c.GROQ_API_KEY}

NoProcessing ==
    [op |-> "process_file", kind |-> "return", raw_text |-> << >>,
     anonymized_text |-> << >>, prompts |-> << >>, final_image |-> NoImage,
     shown |-> "st.warning"]

\* The handler, step by step; an exception of a step ends it there.
process_file_handler(inputs) ==
    IF inputs.uploaded_file = NoUpload THEN NoProcessing
    ELSE LET raised == [NoProcessing EXCEPT !.kind = "raise", !.shown = "exception"]
             extracted == file_cleanser_analysis_app_extract_text_from_file(inputs.uploaded_file)
             raw_text == extracted.value
             cleansed == file_cleanser_analysis_app_anonymize_text(
                             raw_text, inputs.client_name, inputs.presidio_fails)
             anonymized_text == cleansed.value
             withLogo == IsPictureName(inputs.uploaded_file.name) /\ inputs.logo_file # NoImage
             redaction == redact_logo(inputs.uploaded_file.image, inputs.logo_file)
             analysis == get_summary_and_findings(anonymized_text, inputs.GROQ_API_KEY, inputs.llm)
             analysis_result == analysis.value
             sofar == [raised EXCEPT !.raw_text = raw_text,
                                     !.anonymized_text = anonymized_text]
         IN  IF extracted.kind = "raise" THEN raised
             ELSE IF cleansed.kind = "raise" THEN [raised EXCEPT !.raw_text = raw_text]
             ELSE IF withLogo /\ redaction.kind = "raise" THEN sofar
             ELSE LET final_image == IF withLogo THEN redaction.image ELSE NoImage
                      analysed_ == [sofar EXCEPT !.prompts = analysis.prompts,
                                                 !.final_image = final_image]
                  IN  IF analysis.kind = "raise" THEN analysed_
                      ELSE IF ~analysis_result.some \/ analysis_result.v.keys = {}
                      THEN [analysed_ EXCEPT !.kind = "return", !.shown = "st.error"]
                      ELSE IF "file_description" \notin analysis_result.v.keys THEN analysed_
                      ELSE [analysed_ EXCEPT !.kind = "return", !.shown = "table"]

InitApp ==
    /\ ImageIdle
    /\ BatchIdle
    /\ text_in \in ProcessFileInputs
    /\ text_ret = NoTextCall

\* if st.button("Process File", type="primary") and uploaded_file: ...
process_file ==
    /\ text_in.op = "process_file" /\ text_ret = NoTextCall
    /\ text_ret' = process_file_handler(text_in)
    /\ UNCHANGED <<imageVars, batchVars, text_in>>

NextApp == process_file

SpecApp == InitApp /\ [][NextApp]_vars

\* The text holds a token that is personal data.
HoldsPii(text) == \E i \in 1..Len(text) : text[i] \in PiiTokens

\* C22: with a blank client name, text that is not blank is still analysed
\* and redacted before it goes to the model: what the app's anonymize_text
\* returns holds personal data no more than what utils/data_cleanser's
\* returns for the same arguments, and no prompt submitted holds any.
C22_BlankClientNameStillRedacts ==
    (/\ text_ret.op = "process_file"
     /\ strip(text_in.client_name) = << >>
     /\ strip(text_ret.raw_text) # << >>
     /\ ~text_in.presidio_fails) =>
        LET other == anonymize_text(text_ret.raw_text, text_in.client_name, FALSE)
        IN  /\ HoldsPii(text_ret.anonymized_text) = HoldsPii(other.value[1])
            /\ \A k \in 1..Len(text_ret.prompts) : ~HoldsPii(text_ret.prompts[k])

\* What a page contributes: its embedded text when there is some, otherwise
\* what OCR reads from its rendering, nothing when OCR fails on it.
Contribution(page) ==
    IF page.text # << >> THEN page.text
    ELSE IF page.ocr_fails THEN << >> ELSE page.ocr

\* The contributions of the pages up to page n, in page order.
RECURSIVE ContributionsTo(_, _)
ContributionsTo(pages, n) ==
    IF n = 0 THEN << >> ELSE ContributionsTo(pages, n - 1) \o Contribution(pages[n])

\* C23: for a PDF that opens, extract_text_from_pdf returns the concatenation,
\* in page order, of one contribution per page: the embedded text when it is
\* not empty, otherwise the OCR text of the rendered page; a page OCR fails on
\* contributes nothing and the pages after it are still processed.
C23_PdfPagesInOrder ==
    (/\ text_ret.op = "extract_text_from_file"
     /\ text_in.file.name = <<"doc", ".pdf">>
     /\ text_in.file.opens) =>
        text_ret.value = ContributionsTo(text_in.file.parts, Len(text_in.file.parts))

\* OCR fails on the first page, the second has embedded text that OCR would
\* misread: the embedded text of the second page is what is returned.
C23_Witness ==
    /\ text_ret.op = "extract_text_from_file"
    /\ text_in.file.name = <<"doc", ".pdf">>
    /\ text_in.file.opens
    /\ text_in.file.parts = <<Part(<< >>, << >>, TRUE),
                              Part(<<"Globex memo">>, <<"Gl0bex mem0">>, FALSE)>>
    /\ text_ret.value = <<"Globex memo">>
====
